---- MODULE Spec2Model ----
(***************************************************************************)
(* State-machine model of the mapcase NWS forecast service:                *)
(*   routers/weather.py           weather_forecast (HTTP status mapping)   *)
(*   services/nws_weather_service NwsWeatherService.get_forecast_bundle    *)
(*   clients/nws_client.py        NwsClient.fetch_json                     *)
(*   core/geo.py, core/http_cache.py                                       *)
(*   db/nws_repo.py               the five tables and their statements     *)
(*                                                                         *)
(* Conventions.  An Optional[...] value is a tuple: None is <<>> and a     *)
(* present value x is <<x>>.  A Python float is a record [nan, v] with v   *)
(* in units of 1e-4 degree.  A parsed JSON object is denoted by the text   *)
(* of the body it was parsed from.  Instants are integer seconds.          *)
(***************************************************************************)
EXTENDS Integers, Sequences, FiniteSets, TLC

VARIABLES
    now,                \* the wall clock (utcnow() and SQL now())
    ticks,              \* how often the clock has advanced
    started,            \* how many requests have been accepted so far
    nws_gridpoints,     \* table nws_gridpoints: sequence of rows, id = position
    nws_point_cache,    \* table nws_point_cache: sequence of rows (insert only)
    nws_forecasts,      \* table nws_forecasts: (gridpoint_id, forecast_type) -> row
    nws_stations,       \* table nws_stations: sequence of rows, id = position
    nws_gridpoint_stations, \* table nws_gridpoint_stations: (gridpoint_id, station_id) -> priority
    req                 \* per in-flight request: the locals of get_forecast_bundle

vars == <<now, ticks, started, nws_gridpoints, nws_point_cache, nws_forecasts,
          nws_stations, nws_gridpoint_stations, req>>

store == <<nws_gridpoints, nws_point_cache, nws_forecasts, nws_stations,
           nws_gridpoint_stations>>

----------------------------------------------------------------------------
(* Bounds of the model *)

MaxRequests == 3        \* requests accepted in one behaviour
MaxTicks == 1           \* clock advances in one behaviour
ClockStep == 700        \* seconds per clock advance
Slots == {1, 2}         \* request slots (coroutines of the event loop)

----------------------------------------------------------------------------
(* Optional values and Python truthiness *)

None == <<>>
Some(x) == <<x>>
Or(a, b) == IF a /= None THEN a ELSE b      \* a or b, for non-empty a

EmptyObj == "{}"
\* an empty dict taken for truthy
TruthyDict_NotNone(o) == o /= None
\* truthiness of an Optional[dict]: None and {} are falsy
TruthyDict(o) == o /= None /\ o[1] /= EmptyObj

Range(s) == {s[i] : i \in DOMAIN s}

----------------------------------------------------------------------------
(* core/geo.py *)

NaN == [nan |-> TRUE, v |-> 0]
Flt(x) == [nan |-> FALSE, v |-> x]
\* IEEE comparisons: every ordered comparison with NaN is false, != is true
FLe(a, b) == ~a.nan /\ ~b.nan /\ a.v <= b.v
FNe(a, b) == a.nan \/ b.nan \/ a.v /= b.v

PA_MIN_LAT == 397199
PA_MAX_LAT == 425167
PA_MIN_LON == 0 - 805243
PA_MAX_LON == 0 - 747070
LatLimit == 900000
LonLimit == 1800000

\* validate_lat_lon: TRUE iff it raises ValueError
validate_lat_lon_raises(lat, lon) ==
    \/ FNe(lat, lat) \/ FNe(lon, lon)
    \/ ~(FLe(Flt(0 - LatLimit), lat) /\ FLe(lat, Flt(LatLimit)))
    \/ ~(FLe(Flt(0 - LonLimit), lon) /\ FLe(lon, Flt(LonLimit)))

\* the rectangle not enforced
assert_in_pa_bounds_raises_Never(lat, lon) == FALSE
\* assert_in_pa_bounds: TRUE iff it raises ValueError
assert_in_pa_bounds_raises(lat, lon) ==
    ~(/\ FLe(Flt(PA_MIN_LAT), lat) /\ FLe(lat, Flt(PA_MAX_LAT))
      /\ FLe(Flt(PA_MIN_LON), lon) /\ FLe(lon, Flt(PA_MAX_LON)))

----------------------------------------------------------------------------
(* core/http_cache.py *)

\* A header value that is meant to be an HTTP-date: the text either parses to
\* the instant t or does not parse at all.
HttpDate(t) == [valid |-> TRUE, t |-> t]
BadDate == [valid |-> FALSE, t |-> 0]

\* A Cache-Control value is a sequence of directives; the argument of a
\* directive is a run of digits (Some(n)) or anything else (None).
Directive(name, arg) == [name |-> name, arg |-> arg]

NoHeaders == [cache_control |-> None, expires |-> None, etag |-> None,
              last_modified |-> None]

\* parsedate_to_datetime inside try/except: None for a malformed date
parse_http_datetime(value) == IF value.valid THEN Some(value.t) ELSE None

\* _MAX_AGE_RE.search: the first "max-age=<digits>" of the header value
MaxAgeSearch(cache_control) ==
    LET hits == {i \in DOMAIN cache_control :
                    /\ cache_control[i].name = "max-age"
                    /\ cache_control[i].arg /= None}
    IN IF hits = {} THEN None
       ELSE Some(cache_control[CHOOSE i \in hits : \A j \in hits : i <= j].arg[1])

\* datetime.max (9999-12-31T23:59:59.999999) as an instant of the model,
\* whose integers are 32 bits wide: now + timedelta(seconds=N) beyond it
\* raises OverflowError
DatetimeMax == 2000000000

\* Line 36: `now + timedelta(seconds=int(m.group(1)))` raises OverflowError
compute_expires_at_raises(headers, t) ==
    LET cache_control == IF headers.cache_control /= None
                         THEN headers.cache_control[1] ELSE <<>>
        m == MaxAgeSearch(cache_control)
    IN m /= None /\ t + m[1] > DatetimeMax

\* compute_expires_at(headers, default_ttl_seconds), with utcnow() = t
compute_expires_at(headers, default_ttl_seconds, t) ==
    LET cache_control == IF headers.cache_control /= None
                         THEN headers.cache_control[1] ELSE <<>>
        m == MaxAgeSearch(cache_control)
        dt == IF headers.expires /= None
              THEN parse_http_datetime(headers.expires[1]) ELSE None
    IN IF m /= None THEN t + m[1]
       ELSE IF dt /= None THEN dt[1]
       ELSE t + default_ttl_seconds

get_etag(headers) == headers.etag

get_last_modified(headers) ==
    IF headers.last_modified /= None
    THEN parse_http_datetime(headers.last_modified[1]) ELSE None

----------------------------------------------------------------------------
(* clients/nws_client.py *)

\* Classes of response bodies.  A body that parses to a JSON object denotes
\* that object; the other classes are listed here.
EmptyBody == ""
NonJsonBodies == {"<html>"}
NonObjectJsonBodies == {"[1]"}

\* What the network hands back: a transport failure or an HTTP response.
TransportFailure == [sent |-> FALSE, status |-> 0, content |-> EmptyBody,
                     headers |-> NoHeaders]
Response(status, content, headers) ==
    [sent |-> TRUE, status |-> status, content |-> content, headers |-> headers]

NwsFetchResult(status_code, json_data, headers, error, body_preview) ==
    [status_code |-> status_code, json_data |-> json_data, headers |-> headers,
     etag |-> get_etag(headers), last_modified |-> get_last_modified(headers),
     error |-> error, body_preview |-> body_preview]

\* NwsClient.fetch_json, given the outcome resp of client.get
fetch_json(resp) ==
    IF ~resp.sent
    THEN NwsFetchResult(0, None, NoHeaders, Some("request error"), None)
    ELSE IF resp.status = 304
    THEN NwsFetchResult(304, None, resp.headers, None, None)
    ELSE IF resp.content = EmptyBody
    THEN NwsFetchResult(resp.status, None, resp.headers,
                        Some("empty response body"), None)
    ELSE IF resp.content \in NonObjectJsonBodies
    THEN NwsFetchResult(resp.status, None, resp.headers,
                        Some("unexpected JSON type"), Some(resp.content))
    ELSE IF resp.content \in NonJsonBodies
    THEN NwsFetchResult(resp.status, None, resp.headers,
                        Some("json parse error"), Some(resp.content))
    ELSE NwsFetchResult(resp.status, Some(resp.content), resp.headers, None, None)

----------------------------------------------------------------------------
(* db/nws_repo.py: gridpoints and the point cache *)

\* The "properties" object of a /points body.  Text fields are Optional
\* strings, gridX/gridY Optional integers.
PointsProps(gridId, gridX, gridY, forecast, forecastHourly, forecastGridData, observationStations) ==
    [gridId |-> gridId, gridX |-> gridX, gridY |-> gridY,
     forecast |-> forecast, forecastHourly |-> forecastHourly,
     forecastGridData |-> forecastGridData,
     observationStations |-> observationStations,
     timeZone |-> Some("America/New_York"), radarStation |-> Some("KCCX")]

\* The /points bodies the upstream is taken to serve.  "{CTP/a}" and "{CTP/b}"
\* name the same grid cell with different forecast URLs; "{PHI}" is another
\* cell that lacks the hourly, griddata and stations URLs; "{nogrid}" lacks
\* gridId/gridX/gridY.  "{PHI/s}" is the "{PHI}" cell with a stations URL.
PointsBodies == {"{CTP/a}", "{CTP/b}", "{PHI}", "{nogrid}"}

properties(points_json) ==
    CASE points_json = "{CTP/a}" ->
            PointsProps(Some("CTP"), Some(31), Some(80), Some("CTP/forecast"),
                        Some("CTP/hourly"), Some("CTP/griddata"), Some("CTP/stations"))
      [] points_json = "{CTP/b}" ->
            PointsProps(Some("CTP"), Some(31), Some(80), Some("CTP/forecast2"),
                        Some("CTP/hourly"), Some("CTP/griddata"), Some("CTP/stations"))
      [] points_json = "{PHI}" ->
            PointsProps(Some("PHI"), Some(10), Some(0), Some("PHI/forecast"),
                        None, None, None)
      [] points_json = "{PHI/s}" ->
            PointsProps(Some("PHI"), Some(10), Some(0), Some("PHI/forecast"),
                        None, None, Some("PHI/stations"))
      [] OTHER ->
            PointsProps(None, None, None, None, None, None, None)

\* grid_id is tested for truthiness, grid_x and grid_y against None (so 0 is
\* accepted)
upsert_gridpoint_raises(points_json) ==
    LET props == properties(points_json)
    IN ~(props.gridId /= None /\ props.gridX /= None /\ props.gridY /= None)

GridpointRow(props) ==
    [grid_id |-> props.gridId[1], grid_x |-> props.gridX[1],
     grid_y |-> props.gridY[1],
     forecast_url |-> props.forecast,
     forecast_hourly_url |-> props.forecastHourly,
     forecast_griddata_url |-> props.forecastGridData,
     observation_stations_url |-> props.observationStations,
     time_zone |-> props.timeZone, radar_station |-> props.radarStation]

SameKey(row, new) ==
    row.grid_id = new.grid_id /\ row.grid_x = new.grid_x /\ row.grid_y = new.grid_y

\* ON CONFLICT DO NOTHING: the row found keeps its columns
upsert_gridpoint_from_points_KeepFirst(rows, points_json) ==
    LET new == GridpointRow(properties(points_json))
        hit == {i \in DOMAIN rows : SameKey(rows[i], new)}
    IN IF hit = {}
       THEN [rows |-> Append(rows, new), id |-> Len(rows) + 1]
       ELSE [rows |-> rows, id |-> CHOOSE j \in hit : TRUE]
\* a plain INSERT, without the conflict clause
upsert_gridpoint_from_points_AlwaysInsert(rows, points_json) ==
    [rows |-> Append(rows, GridpointRow(properties(points_json))),
     id |-> Len(rows) + 1]
\* INSERT ... ON CONFLICT (grid_id, grid_x, grid_y) DO UPDATE ... RETURNING id
\* on the table `rows`: the table afterwards and the returned id
upsert_gridpoint_from_points(rows, points_json) ==
    LET new == GridpointRow(properties(points_json))
        hit == {i \in DOMAIN rows : SameKey(rows[i], new)}
    IN IF hit = {}
       THEN [rows |-> Append(rows, new), id |-> Len(rows) + 1]
       ELSE LET i == CHOOSE j \in hit : TRUE
            IN [rows |-> [rows EXCEPT ![i] = new], id |-> i]

\* SELECT * FROM nws_gridpoints WHERE id = :id
get_gridpoint(rows, gridpoint_id) ==
    IF gridpoint_id \in DOMAIN rows
    THEN Some([id |-> gridpoint_id, row |-> rows[gridpoint_id]])
    ELSE None

\* Geography distance in metres between two points given in 1e-4 degree, on
\* the local tangent plane at 40 N: 11.1 m per unit of latitude, 8.5 m per
\* unit of longitude.
Abs(x) == IF x < 0 THEN 0 - x ELSE x
MetresNorth(lat1, lat2) == (Abs(lat1 - lat2) * 111) \div 10
MetresEast(lon1, lon2) == (Abs(lon1 - lon2) * 85) \div 10
\* ST_Distance, squared (used for points that are within the radius)
DistanceSq(lat1, lon1, lat2, lon2) ==
    MetresEast(lon1, lon2) * MetresEast(lon1, lon2)
        + MetresNorth(lat1, lat2) * MetresNorth(lat1, lat2)
\* ST_DWithin
DWithin(lat1, lon1, lat2, lon2, radius_m) ==
    /\ MetresNorth(lat1, lat2) <= radius_m
    /\ MetresEast(lon1, lon2) <= radius_m
    /\ DistanceSq(lat1, lon1, lat2, lon2) <= radius_m * radius_m

\* the test expires_at > now() left out of the WHERE clause
NearbyLive_AnyAge(cache, lat, lon, radius_m, t) ==
    {i \in DOMAIN cache : DWithin(cache[i].lat, cache[i].lon, lat, lon, radius_m)}
\* The rows the WHERE clause of get_nearest_cached_gridpoint keeps
NearbyLive(cache, lat, lon, radius_m, t) ==
    {i \in DOMAIN cache :
        /\ cache[i].expires_at > t
        /\ DWithin(cache[i].lat, cache[i].lon, lat, lon, radius_m)}

\* ORDER BY distance_m DESC
get_nearest_cached_gridpoint_Farthest(cache, lat, lon, radius_m, t) ==
    LET live == NearbyLive(cache, lat, lon, radius_m, t)
        d(i) == DistanceSq(cache[i].lat, cache[i].lon, lat, lon)
    IN {i \in live : \A j \in live : d(i) >= d(j)}
\* ORDER BY distance_m ASC LIMIT 1: the candidates for the row returned (more
\* than one only on a tie); empty when the query returns no row
get_nearest_cached_gridpoint(cache, lat, lon, radius_m, t) ==
    LET live == NearbyLive(cache, lat, lon, radius_m, t)
        d(i) == DistanceSq(cache[i].lat, cache[i].lon, lat, lon)
    IN {i \in live : \A j \in live : d(i) <= d(j)}

\* the INSERT not executed
insert_point_cache_Nothing(cache, lat, lon, gridpoint_id, distance_m, expires_at) == cache
\* INSERT INTO nws_point_cache
insert_point_cache(cache, lat, lon, gridpoint_id, distance_m, expires_at) ==
    Append(cache, [lat |-> lat, lon |-> lon, gridpoint_id |-> gridpoint_id,
                   distance_m |-> distance_m, expires_at |-> expires_at])

----------------------------------------------------------------------------
(* db/nws_repo.py: the forecast cache *)

\* the dict built in another order
FTypes_HourlyFirst == <<"hourly", "forecast", "griddata">>
FTypes == <<"forecast", "hourly", "griddata">>

\* SELECT * FROM nws_forecasts WHERE gridpoint_id = .. AND forecast_type = ..
get_forecast_cache(table, gridpoint_id, forecast_type) ==
    IF <<gridpoint_id, forecast_type>> \in DOMAIN table
    THEN Some(table[<<gridpoint_id, forecast_type>>])
    ELSE None

\* INSERT ... ON CONFLICT (gridpoint_id, forecast_type) DO UPDATE: every column
\* is taken from the new values
upsert_forecast_cache(table, gridpoint_id, forecast_type, url, data_json, status_code, error, etag, last_modified, expires_at) ==
    LET key == <<gridpoint_id, forecast_type>>
        row == [url |-> url, data_json |-> data_json, status_code |-> status_code,
                error |-> error, etag |-> etag, last_modified |-> last_modified,
                expires_at |-> expires_at]
    IN [k \in DOMAIN table \cup {key} |-> IF k = key THEN row ELSE table[k]]

----------------------------------------------------------------------------
(* db/nws_repo.py: stations *)

\* One element of the "features" array.  kind: "dict" (a JSON object),
\* "falsy" (null, {}, 0, "") or "other" (a non-empty string, a number, ...).
\* ident: properties.stationIdentifier or properties.identifier.
\* geometry: "none" (absent or null), "point" (coordinates [lon, lat]),
\* "long" (coordinates of another length), "text" (geometry is a string),
\* "nonnumeric" (two coordinates that float() rejects).
Feature(kind, ident, geometry) ==
    [kind |-> kind, ident |-> ident, name |-> ident, geometry |-> geometry]

\* The stations bodies the upstream is taken to serve
StationsBodies == {"{S1,S2}", "{-,S2,S1}", "{S1,S1}", "{features:1}", "{['abc']}",
                   "{S1:geometry='x'}", "{S1:coordinates=['a','b']}"}

\* stations_geojson.get("features"): is it a list, and its elements
features_of(stations_geojson) ==
    CASE stations_geojson = "{S1,S2}" ->
            [is_list |-> TRUE,
             items |-> <<Feature("dict", Some("S1"), "point"),
                         Feature("dict", Some("S2"), "none")>>]
      [] stations_geojson = "{-,S2,S1}" ->
            [is_list |-> TRUE,
             items |-> <<Feature("dict", None, "point"),
                         Feature("dict", Some("S2"), "long"),
                         Feature("dict", Some("S1"), "point")>>]
      [] stations_geojson = "{S1,S1}" ->
            [is_list |-> TRUE,
             items |-> <<Feature("dict", Some("S1"), "none"),
                         Feature("dict", Some("S1"), "point")>>]
      [] stations_geojson = "{['abc']}" ->
            [is_list |-> TRUE, items |-> <<Feature("other", None, "none")>>]
      [] stations_geojson = "{S1:geometry='x'}" ->
            [is_list |-> TRUE, items |-> <<Feature("dict", Some("S1"), "text")>>]
      [] stations_geojson = "{S1:coordinates=['a','b']}" ->
            [is_list |-> TRUE,
             items |-> <<Feature("dict", Some("S1"), "nonnumeric")>>]
      [] OTHER ->
            [is_list |-> FALSE, items |-> <<>>]

\* INSERT INTO nws_stations ... ON CONFLICT (station_identifier) DO UPDATE
\* ... RETURNING id
UpsertStation(stations, ident, name, geog) ==
    LET new == [station_identifier |-> ident, name |-> name, station_geog |-> geog]
        hit == {i \in DOMAIN stations : stations[i].station_identifier = ident}
    IN IF hit = {}
       THEN [rows |-> Append(stations, new), id |-> Len(stations) + 1]
       ELSE LET i == CHOOSE j \in hit : TRUE
            IN [rows |-> [stations EXCEPT ![i] = new], id |-> i]

\* the priority added to the one stored
UpsertLink_Accumulate(links, gridpoint_id, station_id, priority) ==
    LET key == <<gridpoint_id, station_id>>
    IN [k \in DOMAIN links \cup {key} |->
            IF k = key
            THEN (IF key \in DOMAIN links THEN links[key] + priority ELSE priority)
            ELSE links[k]]
\* INSERT INTO nws_gridpoint_stations ... ON CONFLICT (gridpoint_id,
\* station_id) DO UPDATE SET priority = EXCLUDED.priority
UpsertLink(links, gridpoint_id, station_id, priority) ==
    LET key == <<gridpoint_id, station_id>>
    IN [k \in DOMAIN links \cup {key} |-> IF k = key THEN priority ELSE links[k]]

\* The loop of upsert_stations_for_gridpoint from position idx (0-based) on
RECURSIVE StationsLoop(_, _, _, _, _, _)
StationsLoop(items, idx, gridpoint_id, stations, links, linked) ==
    IF idx >= Len(items)
    THEN [raised |-> "none", linked |-> linked, stations |-> stations,
          links |-> links]
    ELSE LET feature == items[idx + 1]
         IN IF feature.kind = "other"
            THEN [raised |-> "AttributeError", linked |-> linked,
                  stations |-> stations, links |-> links]
            ELSE IF feature.kind = "falsy" \/ feature.ident = None
            THEN StationsLoop(items, idx + 1, gridpoint_id, stations, links, linked)
            ELSE IF feature.geometry = "text"
            THEN [raised |-> "AttributeError", linked |-> linked,
                  stations |-> stations, links |-> links]
            ELSE IF feature.geometry = "nonnumeric"
            THEN [raised |-> "ValueError", linked |-> linked,
                  stations |-> stations, links |-> links]
            ELSE LET st == UpsertStation(stations, feature.ident[1], feature.name,
                                         feature.geometry = "point")
                 IN StationsLoop(items, idx + 1, gridpoint_id, st.rows,
                                 UpsertLink(links, gridpoint_id, st.id, idx),
                                 linked + 1)

\* upsert_stations_for_gridpoint.  The loop runs in one transaction, so an
\* exception leaves both tables as they were.  store_fault: the store rejects
\* the transaction.
upsert_stations_for_gridpoint(stations, links, gridpoint_id, stations_geojson, store_fault) ==
    LET features == features_of(stations_geojson)
        unchanged(raised) == [raised |-> raised, linked |-> 0,
                              stations |-> stations, links |-> links]
    IN IF ~features.is_list THEN unchanged("none")
       ELSE IF store_fault THEN unchanged("DBAPIError")
       ELSE LET done == StationsLoop(features.items, 0, gridpoint_id,
                                     stations, links, 0)
            IN IF done.raised = "none" THEN done ELSE unchanged(done.raised)

----------------------------------------------------------------------------
(* What the upstream and the callers are taken to do *)

\* Query coordinates, in 1e-4 degree
QHome == <<Flt(400000), Flt(0 - 760000)>>       \* (40.0, -76.0)
QNear == <<Flt(400180), Flt(0 - 760000)>>       \* 2.0 km north of QHome
QFar == <<Flt(400400), Flt(0 - 760000)>>        \* 4.4 km north of QHome, 2.4 km of QNear
QNaN == <<NaN, Flt(0 - 760000)>>
QOutOfRange == <<Flt(400000), Flt(1800001)>>    \* longitude beyond 180
QOutsidePA == <<Flt(390000), Flt(0 - 760000)>>  \* in range, south of the rectangle
Coordinates == {QHome, QNear, QFar, QNaN, QOutOfRange, QOutsidePA}

PastInstant == 0 - 1
FutureInstant == 1000000

\* Response headers of the upstream
HMaxAge0 == [cache_control |-> Some(<<Directive("public", None), Directive("max-age", Some(0))>>),
             expires |-> Some(HttpDate(PastInstant)),
             etag |-> Some("W/1"), last_modified |-> None]
HExpiresPast == [cache_control |-> Some(<<Directive("max-age", None)>>),
                 expires |-> Some(HttpDate(PastInstant)),
                 etag |-> None, last_modified |-> Some(HttpDate(PastInstant))]
HExpiresLate == [cache_control |-> None, expires |-> Some(HttpDate(FutureInstant)),
                 etag |-> Some("W/2"), last_modified |-> None]
HExpiresBad == [cache_control |-> None, expires |-> Some(BadDate),
                etag |-> None, last_modified |-> Some(BadDate)]
\* max-age with more seconds than are left until datetime.max
HMaxAgeHuge == [cache_control |-> Some(<<Directive("max-age", Some(DatetimeMax + 1))>>),
                expires |-> None, etag |-> None, last_modified |-> None]

\* Responses of the point-resolution resource
PointsFailures ==
    {TransportFailure, Response(500, "<html>", NoHeaders),
     Response(404, "{CTP/a}", NoHeaders), Response(200, EmptyBody, NoHeaders),
     Response(200, "[1]", NoHeaders), Response(200, EmptyObj, NoHeaders)}
PointsResponses ==
    PointsFailures
    \cup {Response(200, b, NoHeaders) : b \in PointsBodies}
    \cup {Response(200, "{PHI}", HMaxAge0)}

\* Responses of the stations resource
StationsResponses ==
    {TransportFailure, Response(200, EmptyObj, NoHeaders)}
    \cup {Response(200, b, NoHeaders) : b \in StationsBodies}

\* Responses of a forecast product resource
ProductFailures ==
    {TransportFailure, Response(500, "<html>", NoHeaders),
     Response(200, EmptyBody, NoHeaders), Response(200, EmptyObj, NoHeaders)}
RichResponses ==
    ProductFailures
    \cup {Response(200, b, h) : b \in {"{P1}", "{P2}"},
                                h \in {NoHeaders, HMaxAge0, HExpiresPast}}
    \cup {Response(304, EmptyBody, h) :
            h \in {NoHeaders, HMaxAge0, HExpiresPast, HExpiresBad}}
Fresh200 == {Response(200, "{P1}", NoHeaders)}
Lasting200 == {Response(200, "{P1}", HExpiresLate)}

\* An environment: the coordinates callers ask for, the responses of each
\* upstream resource, and whether the store may reject the stations
\* transaction.
\*
\* CacheEnv exercises the forecast cache: every response class on the
\* "forecast" resource, one coordinate, one grid cell.
CacheEnv ==
    [coords |-> {QHome, QNaN},
     points |-> {TransportFailure, Response(200, "{CTP/a}", NoHeaders)},
     stations |-> {TransportFailure},
     store_faults |-> {FALSE},
     products |-> [forecast |-> RichResponses
                                \cup {Response(200, "{P1}", HMaxAgeHuge)},
                   hourly |-> {TransportFailure, Response(304, EmptyBody, NoHeaders)}
                                \cup Fresh200,
                   griddata |-> {TransportFailure} \cup Fresh200]]

\* StationsEnv exercises the station refresh: two coordinates apart, two grid
\* cells with a stations URL, every stations response class, and a store that
\* may reject the station transaction; the products answer 200 with a payload
\* that lasts.
StationsEnv ==
    [coords |-> {QHome, QFar},
     points |-> {TransportFailure, Response(200, "{CTP/a}", NoHeaders),
                 Response(200, "{PHI/s}", NoHeaders)},
     stations |-> StationsResponses,
     store_faults |-> BOOLEAN,
     products |-> [forecast |-> Lasting200, hourly |-> Lasting200,
                   griddata |-> Lasting200]]

\* GridEnv exercises resolution: every coordinate, every /points response
\* class, a stations resource that fails or names two stations; the products
\* answer 200 with a far Expires date.
GridEnv ==
    [coords |-> Coordinates,
     points |-> PointsResponses,
     stations |-> {TransportFailure, Response(200, "{-,S2,S1}", NoHeaders)},
     store_faults |-> {FALSE},
     products |-> [forecast |-> Lasting200, hourly |-> Lasting200,
                   griddata |-> Lasting200]]

\* LiveEnv holds one answer of every kind for each upstream resource: a
\* transport failure, an error status, a usable 200, a 304, and a stations
\* feed the station refresh raises on
LiveEnv ==
    [coords |-> {QHome, QNaN},
     points |-> {TransportFailure, Response(200, "{CTP/a}", NoHeaders)},
     stations |-> {TransportFailure, Response(200, "{-,S2,S1}", NoHeaders),
                   Response(200, "{['abc']}", NoHeaders)},
     store_faults |-> {FALSE},
     products |-> [forecast |-> {TransportFailure, Response(500, "<html>", NoHeaders),
                                 Response(200, "{P1}", HMaxAge0),
                                 Response(304, EmptyBody, NoHeaders)},
                   hourly |-> {TransportFailure} \cup Fresh200,
                   griddata |-> {TransportFailure} \cup Fresh200]]

\* RaceEnv is the environment of overlapping requests
RaceEnv ==
    [coords |-> {QHome},
     points |-> {TransportFailure, Response(200, "{PHI}", NoHeaders),
                 Response(200, "{PHI/s}", NoHeaders)},
     stations |-> {TransportFailure},
     store_faults |-> {FALSE},
     products |-> [forecast |-> {TransportFailure,
                                 Response(200, "{P1}", HMaxAge0),
                                 Response(200, "{P2}", NoHeaders),
                                 Response(304, EmptyBody, NoHeaders)},
                   hourly |-> Fresh200, griddata |-> Fresh200]]

----------------------------------------------------------------------------
(* services/nws_weather_service.py: NwsWeatherService *)

cache_radius_m == 2500
points_default_ttl_s == 86400
forecast_default_ttl_s == 600

Resources == {"points", "stations", "forecast", "hourly", "griddata"}

Note(ftype, text) == [ftype |-> ftype, text |-> text]

\* A slot of out["data"]: a payload, or {"error": "fetch failed", "status": n}
Payload(data_json) == [error |-> None, status |-> None, body |-> data_json]
ErrorMarker(status_code) ==
    [error |-> Some("fetch failed"), status |-> Some(status_code), body |-> None]

NoTable == [k \in {} |-> 0]

\* The locals of one call of weather_forecast / get_forecast_bundle.
\*   pc      where the coroutine stands ("idle": no request in the slot)
\*   debug, nearest, gridpoint_id, gridpoint, points_expires_at,
\*   points_res, stations_res, stations_linked, cached, res, data: the variables of the
\*   same name
\*   fidx    position of the loop over the forecast types
\*   ret     the dict returned, exc the exception raised (Optional)
\*   http    the status code weather_forecast answers with (0: none yet)
\*   calls   requests this call has sent upstream, per resource
NewReq(lat, lon) ==
    [pc |-> "idle", lat |-> lat, lon |-> lon, debug |-> <<>>, nearest |-> None,
     gridpoint_id |-> None, gridpoint |-> None, points_res |-> None,
     stations_res |-> None,
     points_expires_at |-> None, stations_linked |-> 0, fidx |-> 1, cached |-> None, res |-> None,
     data |-> NoTable, ret |-> None, exc |-> None, http |-> 0,
     calls |-> [k \in Resources |-> 0]]

IdleReq == NewReq(NaN, NaN)

InFlight == {r \in Slots : req[r].pc \notin {"idle", "done"}}

Init ==
    /\ now = 0
    /\ ticks = 0
    /\ started = 0
    /\ nws_gridpoints = <<>>
    /\ nws_point_cache = <<>>
    /\ nws_forecasts = NoTable
    /\ nws_stations = <<>>
    /\ nws_gridpoint_stations = NoTable
    /\ req = [r \in Slots |-> IdleReq]

\* The clock advances
Tick ==
    /\ ticks < MaxTicks
    /\ now' = now + ClockStep
    /\ ticks' = ticks + 1
    /\ UNCHANGED <<started, store, req>>

\* routers/weather.py: the status code weather_forecast answers with when
\* get_forecast_bundle has raised q.exc or returned q.ret
StatusFor(q) ==
    IF q.exc = Some("ValueError") THEN 400
    ELSE IF q.exc /= None THEN 502
    ELSE IF ~q.ret[1].ok THEN 502
    ELSE 200

\* get_forecast_bundle raises / returns, and weather_forecast answers
Answer(q) == [q EXCEPT !.pc = "done", !.http = StatusFor(q)]
Raise(q, name) == Answer([q EXCEPT !.exc = Some(name)])
Return(q, ok, error) == Answer([q EXCEPT !.ret = Some([ok |-> ok, error |-> error])])
Called(q, resource) == [q EXCEPT !.calls[resource] = @ + 1]
Say(q, ftype, text) == [q EXCEPT !.debug = Append(@, Note(ftype, text))]

UrlOf(gridpoint, ftype) ==
    CASE ftype = "forecast" -> gridpoint.row.forecast_url
      [] ftype = "hourly" -> gridpoint.row.forecast_hourly_url
      [] ftype = "griddata" -> gridpoint.row.forecast_griddata_url

\* the skip without its trace note
RECURSIVE NextProduct_Silent(_, _)
NextProduct_Silent(q, i) ==
    IF i > Len(FTypes) THEN Return([q EXCEPT !.fidx = i], TRUE, None)
    ELSE IF UrlOf(q.gridpoint[1], FTypes[i]) = None
    THEN NextProduct_Silent(q, i + 1)
    ELSE [q EXCEPT !.pc = "product", !.fidx = i]
\* a product whose fetch failed is fetched once more
RECURSIVE NextProduct_Retry(_, _)
NextProduct_Retry(q, i) ==
    IF /\ i > 1
       /\ FTypes[i - 1] \in DOMAIN q.data
       /\ q.data[FTypes[i - 1]].error /= None
       /\ q.calls[FTypes[i - 1]] < 2
    THEN [q EXCEPT !.pc = "fetch", !.fidx = i - 1]
    ELSE IF i > Len(FTypes) THEN Return([q EXCEPT !.fidx = i], TRUE, None)
    ELSE IF UrlOf(q.gridpoint[1], FTypes[i]) = None
    THEN NextProduct_Retry(Say(q, FTypes[i], "No URL available, skipping"), i + 1)
    ELSE [q EXCEPT !.pc = "product", !.fidx = i]
\* The loop header of `for ftype, url in urls.items()` from position i on:
\* types without a URL are skipped with a note; the loop stops at the first
\* type that has one (next comes its cache lookup) or returns `out`
RECURSIVE NextProduct(_, _)
NextProduct(q, i) ==
    IF i > Len(FTypes) THEN Return([q EXCEPT !.fidx = i], TRUE, None)
    ELSE IF UrlOf(q.gridpoint[1], FTypes[i]) = None
    THEN NextProduct(Say(q, FTypes[i], "No URL available, skipping"), i + 1)
    ELSE [q EXCEPT !.pc = "product", !.fidx = i]

\* Lines 89-96 and 107-108: with the gridpoint loaded (or not), on to the
\* stations fetch, or past it when the gridpoint has no stations URL
AfterGridpoint(q) ==
    IF q.gridpoint = None THEN Return(q, FALSE, Some("Unable to resolve gridpoint"))
    ELSE IF q.gridpoint[1].row.observation_stations_url /= None
    THEN Say([q EXCEPT !.pc = "stations"], "", "Fetching observation stations list")
    ELSE NextProduct(Say(q, "", "No observationStations URL on gridpoint metadata"), 1)

\* weather_forecast is called and get_forecast_bundle runs to its first await
\* (lines 40-44).  cap: how many requests may be in progress at once.
Start(r, lat, lon, cap) ==
    /\ req[r].pc = "idle"
    /\ \A s \in Slots : s < r => req[s].pc /= "idle"
    /\ started < MaxRequests
    /\ Cardinality({s \in Slots : req[s].pc /= "idle"}) < cap
    /\ started' = started + 1
    /\ LET q == NewReq(lat, lon)
       IN req' = [req EXCEPT ![r] =
            IF validate_lat_lon_raises(lat, lon) \/ assert_in_pa_bounds_raises(lat, lon)
            THEN Raise(q, "ValueError")
            ELSE Say(Say([q EXCEPT !.pc = "lookup"], "", "Received lat/lon"),
                     "", "Validated lat/lon within PA bounds")]
    /\ UNCHANGED <<now, ticks, store>>

\* await get_nearest_cached_gridpoint (lines 47-54, 61-62)
PointCacheLookup(r) ==
    /\ req[r].pc = "lookup"
    /\ LET q == req[r]
           found == get_nearest_cached_gridpoint(nws_point_cache, q.lat.v, q.lon.v,
                                                 cache_radius_m, now)
       IN IF found = {}
          THEN req' = [req EXCEPT ![r] =
                    Say([q EXCEPT !.pc = "points"], "",
                        "Point cache miss -> calling NWS /points")]
          ELSE \E i \in found :
                 req' = [req EXCEPT ![r] =
                    [q EXCEPT !.pc = "load", !.nearest = Some(i),
                              !.gridpoint_id = Some(nws_point_cache[i].gridpoint_id)]]
    /\ UNCHANGED <<now, ticks, started, store>>

\* await get_gridpoint on a point-cache hit (lines 55-62, 89-96)
LoadCachedGridpoint(r) ==
    /\ req[r].pc = "load"
    /\ LET q == [req[r] EXCEPT !.gridpoint =
                    get_gridpoint(nws_gridpoints, req[r].gridpoint_id[1])]
           hit == Say(q, "", "Point cache hit")
       IN req' = [req EXCEPT ![r] =
            IF q.gridpoint = None
            THEN Say([hit EXCEPT !.pc = "points"], "",
                     "Point cache miss -> calling NWS /points")
            ELSE AfterGridpoint(hit)]
    /\ UNCHANGED <<now, ticks, started, store>>

\* the status code not looked at
PointsFailed_BodyOnly(points_res) == ~TruthyDict(points_res.json_data)
\* Line 65: the /points result is no use
PointsFailed(points_res) ==
    points_res.status_code /= 200 \/ ~TruthyDict(points_res.json_data)

\* await self.nws.points, then await upsert_gridpoint_from_points (lines 63-73)
ResolvePoints(r, resp) ==
    /\ req[r].pc = "points"
    /\ LET points_res == fetch_json(resp)
           q == [Called(req[r], "points") EXCEPT !.points_res = Some(points_res)]
       IN IF PointsFailed(points_res)
          THEN /\ req' = [req EXCEPT ![r] = Return(q, FALSE, Some("NWS /points failed"))]
               /\ UNCHANGED nws_gridpoints
          ELSE IF compute_expires_at_raises(points_res.headers, now)
          THEN /\ req' = [req EXCEPT ![r] = Raise(q, "OverflowError")]
               /\ UNCHANGED nws_gridpoints
          ELSE IF upsert_gridpoint_raises(points_res.json_data[1])
          THEN /\ req' = [req EXCEPT ![r] = Raise(q, "ValueError")]
               /\ UNCHANGED nws_gridpoints
          ELSE LET up == upsert_gridpoint_from_points(nws_gridpoints,
                                                      points_res.json_data[1])
               IN /\ nws_gridpoints' = up.rows
                  /\ req' = [req EXCEPT ![r] =
                        [q EXCEPT !.pc = "insert", !.gridpoint_id = Some(up.id),
                                  !.points_expires_at =
                                      Some(compute_expires_at(points_res.headers,
                                                              points_default_ttl_s, now))]]
    /\ UNCHANGED <<now, ticks, started, nws_point_cache, nws_forecasts,
                   nws_stations, nws_gridpoint_stations>>

\* await insert_point_cache (lines 74-85); distance_m is passed as None
InsertPointCache(r) ==
    /\ req[r].pc = "insert"
    /\ LET q == req[r]
       IN /\ nws_point_cache' =
                insert_point_cache(nws_point_cache, q.lat.v, q.lon.v,
                                   q.gridpoint_id[1], None, q.points_expires_at[1])
          /\ req' = [req EXCEPT ![r] = Say([q EXCEPT !.pc = "reload"], "", "NWS /points OK")]
    /\ UNCHANGED <<now, ticks, started, nws_gridpoints, nws_forecasts,
                   nws_stations, nws_gridpoint_stations>>

\* await get_gridpoint after the upsert (lines 87-96)
ReloadGridpoint(r) ==
    /\ req[r].pc = "reload"
    /\ req' = [req EXCEPT ![r] =
            AfterGridpoint([req[r] EXCEPT !.gridpoint =
                                get_gridpoint(nws_gridpoints, req[r].gridpoint_id[1])])]
    /\ UNCHANGED <<now, ticks, started, store>>

\* await self.nws.fetch_json(stations_url), then await
\* upsert_stations_for_gridpoint (lines 97-106)
RefreshStations(r, resp, store_fault) ==
    /\ req[r].pc = "stations"
    /\ LET stations_res == fetch_json(resp)
           q == [Called(req[r], "stations") EXCEPT !.stations_res = Some(stations_res)]
       IN IF stations_res.status_code = 200 /\ TruthyDict(stations_res.json_data)
          THEN LET up == upsert_stations_for_gridpoint(
                            nws_stations, nws_gridpoint_stations,
                            q.gridpoint[1].id, stations_res.json_data[1], store_fault)
               IN /\ nws_stations' = up.stations
                  /\ nws_gridpoint_stations' = up.links
                  /\ req' = [req EXCEPT ![r] =
                        IF up.raised /= "none" THEN Raise(q, up.raised)
                        ELSE NextProduct(Say([q EXCEPT !.stations_linked = up.linked],
                                             "", "Stored/linked stations for gridpoint"), 1)]
          ELSE /\ ~store_fault
               /\ req' = [req EXCEPT ![r] =
                        NextProduct(Say(q, "", "Stations fetch skipped/failed"), 1)]
               /\ UNCHANGED <<nws_stations, nws_gridpoint_stations>>
    /\ UNCHANGED <<now, ticks, started, nws_gridpoints, nws_point_cache, nws_forecasts>>

\* The forecast type the loop stands at ("" once the loop has ended)
CurrentType(q) == IF q.fidx \in DOMAIN FTypes THEN FTypes[q.fidx] ELSE ""

\* out["data"][ftype] = slot
SetSlot(q, ftype, slot) ==
    [q EXCEPT !.data = [k \in DOMAIN @ \cup {ftype} |-> IF k = ftype THEN slot ELSE @[k]]]

\* the freshness test dropped
IsFresh_Never(cached, t) == FALSE
\* Line 140: the cached row may be served without asking upstream
IsFresh(cached, t) == cached /= None /\ cached[1].expires_at > t

\* no stale fallback
FailureSlot_NoStale(cached, res) == ErrorMarker(res.status_code)
\* the marker without the status observed
FailureSlot_NoStatus(cached, res) ==
    IF cached /= None /\ TruthyDict(cached[1].data_json)
    THEN Payload(cached[1].data_json)
    ELSE ErrorMarker(0)
\* Lines 181-186: what goes into the slot when the fetch has failed
FailureSlot(cached, res) ==
    IF cached /= None /\ TruthyDict(cached[1].data_json)
    THEN Payload(cached[1].data_json)
    ELSE ErrorMarker(res.status_code)

\* await get_forecast_cache for the current type (lines 137-150)
ProductLookup(r) ==
    /\ req[r].pc = "product"
    /\ LET ftype == CurrentType(req[r])
           cached == get_forecast_cache(nws_forecasts, req[r].gridpoint[1].id, ftype)
           q == [req[r] EXCEPT !.cached = cached]
       IN req' = [req EXCEPT ![r] =
            IF IsFresh(cached, now)
            THEN NextProduct(SetSlot(Say(q, ftype, "cache hit"), ftype,
                                     Payload(cached[1].data_json)),
                             q.fidx + 1)
            ELSE Say([q EXCEPT !.pc = "fetch"], ftype, "cache miss/expired -> calling NWS")]
    /\ UNCHANGED <<now, ticks, started, store>>

\* The notes of lines 175-179
SayFailure(q, ftype, res) ==
    LET a == Say(q, ftype, "NWS failed")
        b == IF res.error /= None THEN Say(a, ftype, "NWS error detail") ELSE a
    IN IF res.body_preview /= None THEN Say(b, ftype, "body preview") ELSE b

\* await self.nws.fetch_json(url, ...) and what follows it in the loop body
\* (lines 152-202), the await of upsert_forecast_cache included
ProductFetch(r, resp) ==
    /\ req[r].pc = "fetch"
    /\ LET ftype == CurrentType(req[r])
           gridpoint == req[r].gridpoint[1]
           url == UrlOf(gridpoint, ftype)[1]
           cached == req[r].cached
           res == fetch_json(resp)
           expires_at == compute_expires_at(res.headers, forecast_default_ttl_s, now)
           q == [Called(req[r], ftype) EXCEPT !.res = Some(res)]
           has_cached == cached /= None /\ TruthyDict(cached[1].data_json)
       IN IF compute_expires_at_raises(res.headers, now)
          THEN /\ UNCHANGED nws_forecasts
               /\ req' = [req EXCEPT ![r] = Raise(q, "OverflowError")]
          ELSE IF res.status_code = 304 /\ has_cached
          THEN /\ nws_forecasts' =
                    upsert_forecast_cache(nws_forecasts, gridpoint.id, ftype, url,
                        cached[1].data_json, 304, None,
                        Or(res.etag, cached[1].etag),
                        Or(res.last_modified, cached[1].last_modified), expires_at)
               /\ req' = [req EXCEPT ![r] =
                    NextProduct(SetSlot(Say(q, ftype, "NWS 304 Not Modified -> extending cache"),
                                        ftype, Payload(cached[1].data_json)),
                                q.fidx + 1)]
          ELSE IF res.status_code /= 200 \/ ~TruthyDict(res.json_data)
          THEN /\ UNCHANGED nws_forecasts
               /\ req' = [req EXCEPT ![r] =
                    NextProduct(
                        SetSlot(IF has_cached
                                THEN Say(SayFailure(q, ftype, res), ftype,
                                         "returning STALE cached data due to upstream failure")
                                ELSE SayFailure(q, ftype, res),
                                ftype, FailureSlot(cached, res)),
                        q.fidx + 1)]
          ELSE /\ nws_forecasts' =
                    upsert_forecast_cache(nws_forecasts, gridpoint.id, ftype, url,
                        res.json_data, 200, None, res.etag, res.last_modified,
                        expires_at)
               /\ req' = [req EXCEPT ![r] =
                    NextProduct(SetSlot(Say(q, ftype, "NWS OK -> cached"), ftype,
                                        Payload(res.json_data)),
                                q.fidx + 1)]
    /\ UNCHANGED <<now, ticks, started, nws_gridpoints, nws_point_cache,
                   nws_stations, nws_gridpoint_stations>>

----------------------------------------------------------------------------
(* The system *)

MaxInFlight == 2

\* The response has been sent: the coroutine and its locals are gone
Finish(r) ==
    /\ req[r].pc = "done"
    /\ req' = [req EXCEPT ![r] = IdleReq]
    /\ UNCHANGED <<now, ticks, started, store>>

\* the fetch of the current product, answered by one of its responses
ProductFetchAny(r, products) ==
    /\ req[r].pc = "fetch"
    /\ \E resp \in products[CurrentType(req[r])] : ProductFetch(r, resp)

Step(r, env) ==
    \/ PointCacheLookup(r)
    \/ LoadCachedGridpoint(r)
    \/ \E resp \in env.points : ResolvePoints(r, resp)
    \/ InsertPointCache(r)
    \/ ReloadGridpoint(r)
    \/ \E resp \in env.stations, store_fault \in env.store_faults :
            RefreshStations(r, resp, store_fault)
    \/ ProductLookup(r)
    \/ ProductFetchAny(r, env.products)
    \/ Finish(r)

\* cap requests at a time, in the environment env
System(env, cap) ==
    \/ Tick
    \/ \E r \in Slots, c \in env.coords : Start(r, c[1], c[2], cap)
    \/ \E r \in Slots : Step(r, env)

\* Requests served one after the other; the forecast cache under every
\* response class
CacheNext == System(CacheEnv, 1)
CacheSpec == Init /\ [][CacheNext]_vars

\* Requests served one after the other, every await returning: a coroutine
\* that can go on is resumed by the event loop
LiveNext == System(LiveEnv, 1)
LiveSpec == Init /\ [][LiveNext]_vars /\ \A r \in Slots : WF_vars(Step(r, LiveEnv))

\* Requests served one after the other; resolution and stations under every
\* response class
GridNext == System(GridEnv, 1)
GridSpec == Init /\ [][GridNext]_vars

\* Requests served one after the other; the station refresh under every
\* response class
StationsNext == System(StationsEnv, 1)
StationsSpec == Init /\ [][StationsNext]_vars

\* Requests overlap: a coroutine yields at every await
Next == System(RaceEnv, MaxInFlight)
Spec == Init /\ [][Next]_vars

----------------------------------------------------------------------------
(* Properties *)

\* the step is one of request r
StepOf(r) == req'[r] /= req[r]

NonEmpty(data_json) == data_json /= None /\ data_json[1] /= "{}"

PayloadAt(table, k) == IF k \in DOMAIN table THEN table[k].data_json ELSE None

HasNote(q, ftype, text) == \E i \in DOMAIN q.debug : q.debug[i] = Note(ftype, text)

\* the row of nws_forecasts the request is revalidating, and the type
RowKey(q) == <<q.gridpoint[1].id, CurrentType(q)>>

\* C1 (as claimed): over any run of requests, a stored payload that is
\* non-empty stays non-empty, and a stored payload changes only in the step
\* of a fetch that returned 200 with a parsed body, to that body; on 304 and
\* on every failure the stored payload is left as it was.
C1_PayloadOnlyMovedBy200 ==
    [][\A k \in DOMAIN nws_forecasts \cup DOMAIN nws_forecasts' :
        /\ NonEmpty(PayloadAt(nws_forecasts, k)) => NonEmpty(PayloadAt(nws_forecasts', k))
        /\ PayloadAt(nws_forecasts', k) /= PayloadAt(nws_forecasts, k) =>
              \E r \in Slots :
                 /\ req[r].pc = "fetch" /\ RowKey(req[r]) = k /\ StepOf(r)
                 /\ req'[r].res[1].status_code = 200
                 /\ req'[r].res[1].json_data /= None
                 /\ req'[r].res[1].json_data = PayloadAt(nws_forecasts', k)]_vars

\* C2: when the cached row has a non-empty payload, its expiry is past and
\* the fetch ends with a status other than 200 and 304 (0 for a transport
\* error), the slot holds the cached payload and the trace says it is stale.
C2_StaleIfError ==
    [][\A r \in Slots :
        (/\ req[r].pc = "fetch" /\ StepOf(r)
         /\ req[r].cached /= None
         /\ NonEmpty(req[r].cached[1].data_json)
         /\ req[r].cached[1].expires_at <= now
         /\ req'[r].res[1].status_code \notin {200, 304})
        => LET ftype == CurrentType(req[r])
           IN /\ ftype \in DOMAIN req'[r].data
              /\ req'[r].data[ftype] = Payload(req[r].cached[1].data_json)
              /\ HasNote(req'[r], ftype,
                         "returning STALE cached data due to upstream failure")
              /\ req'[r].exc = None]_vars

C2_Witness ==
    \E r \in Slots :
        /\ req[r].pc = "product" /\ req[r].fidx = 2
        /\ req[r].res /= None /\ req[r].res[1].status_code = 0
        /\ req[r].cached /= None /\ req[r].cached[1].expires_at <= now
        /\ req[r].data["forecast"] = Payload(Some("{P2}"))
        /\ HasNote(req[r], "forecast", "returning STALE cached data due to upstream failure")

\* C3 (as claimed): a 304 on the revalidation of a row whose expiry is past,
\* whatever caching headers the 304 carries, leaves the stored payload as it
\* was, stores status 304 and stores an expiry strictly greater than the one
\* stored before.
C3_Extended304 ==
    [][\A r \in Slots :
        (/\ req[r].pc = "fetch" /\ StepOf(r)
         /\ req[r].cached /= None
         /\ NonEmpty(req[r].cached[1].data_json)
         /\ req[r].cached[1].expires_at < now
         /\ req'[r].res[1].status_code = 304)
        => LET k == RowKey(req[r])
           IN /\ PayloadAt(nws_forecasts', k) = PayloadAt(nws_forecasts, k)
              /\ nws_forecasts'[k].status_code = 304
              /\ nws_forecasts'[k].expires_at > nws_forecasts[k].expires_at]_vars

\* C4: a row whose expiry is strictly in the future at lookup is served as
\* it is: its payload goes into the slot, nothing is sent upstream for the
\* product and nws_forecasts is not written.
C4_FreshServedFromCache ==
    [][\A r \in Slots :
        (/\ req[r].pc = "product" /\ StepOf(r)
         /\ RowKey(req[r]) \in DOMAIN nws_forecasts
         /\ nws_forecasts[RowKey(req[r])].expires_at > now)
        => LET ftype == CurrentType(req[r])
           IN /\ ftype \in DOMAIN req'[r].data
              /\ req'[r].data[ftype].body = nws_forecasts[RowKey(req[r])].data_json
              /\ req'[r].data[ftype].error = None
              /\ req'[r].calls = req[r].calls
              /\ req'[r].pc /= "fetch"
              /\ nws_forecasts' = nws_forecasts]_vars

\* a finished request that served the forecast from the cache and sent
\* nothing upstream for it
C4_Witness ==
    \E r \in Slots :
        /\ req[r].pc = "done" /\ req[r].ret = Some([ok |-> TRUE, error |-> None])
        /\ HasNote(req[r], "forecast", "cache hit")
        /\ req[r].calls["forecast"] = 0
        /\ req[r].data["forecast"].body = Some("{P2}")

\* C7: without a cached row, a failed fetch (a status other than 200, a
\* transport error, a body that does not parse) raises nothing: the slot
\* holds the error marker with the status observed, and the bundle, once
\* returned, is ok.
C7_MarkerInBand ==
    [][\A r \in Slots :
        /\ (/\ req[r].pc = "fetch" /\ StepOf(r)
            /\ req[r].cached = None
            /\ \/ req'[r].res[1].status_code /= 200
               \/ req'[r].res[1].json_data = None)
           => LET ftype == CurrentType(req[r])
              IN /\ req'[r].exc = None
                 /\ ftype \in DOMAIN req'[r].data
                 /\ req'[r].data[ftype] =
                        [error |-> Some("fetch failed"),
                         status |-> Some(req'[r].res[1].status_code), body |-> None]
        /\ (/\ req'[r].pc = "done"
            /\ \E f \in DOMAIN req'[r].data : req'[r].data[f].error /= None)
           => req'[r].ret = Some([ok |-> TRUE, error |-> None]) /\ req'[r].http = 200]_vars

C7_Witness ==
    \E r \in Slots :
        /\ req[r].pc = "done" /\ req[r].ret /= None /\ req[r].ret[1].ok
        /\ req[r].data["forecast"].status = Some(500)
        /\ req[r].data["hourly"].status = Some(0)

\* the live rows of the point cache within the radius of q's coordinate, and
\* the closest among them
LiveNear(q) ==
    {i \in DOMAIN nws_point_cache :
        /\ nws_point_cache[i].expires_at > now
        /\ DWithin(nws_point_cache[i].lat, nws_point_cache[i].lon,
                   q.lat.v, q.lon.v, cache_radius_m)}
Closest(q) ==
    LET d(i) == DistanceSq(nws_point_cache[i].lat, nws_point_cache[i].lon,
                           q.lat.v, q.lon.v)
    IN {i \in LiveNear(q) : \A j \in LiveNear(q) : d(i) <= d(j)}

\* C5: when a live row of the point cache lies within the radius of the
\* query, the lookup takes the closest such row; the request then sends
\* nothing to the point-resolution resource, inserts no row into the point
\* cache and works on the grid cell that row refers to.
C5_PointCacheHit ==
    [][\A r \in Slots :
        /\ (req[r].pc = "lookup" /\ StepOf(r) /\ LiveNear(req[r]) /= {})
           => /\ req'[r].pc = "load"
              /\ req'[r].nearest /= None
              /\ req'[r].nearest[1] \in Closest(req[r])
              /\ req'[r].gridpoint_id =
                    Some(nws_point_cache[req'[r].nearest[1]].gridpoint_id)
        /\ (req[r].nearest /= None /\ StepOf(r))
           => /\ nws_point_cache' = nws_point_cache
              /\ nws_gridpoints' = nws_gridpoints
              /\ req'[r].pc /= "idle" =>
                    /\ req'[r].calls["points"] = 0
                    /\ req'[r].pc \notin {"points", "insert", "reload"}
                    /\ req'[r].gridpoint /= None
                    /\ req'[r].gridpoint[1].id =
                          nws_point_cache[req[r].nearest[1]].gridpoint_id]_vars

\* a request served from the closer of two live rows that refer to
\* different grid cells
C5_Witness ==
    \E r \in Slots :
        /\ req[r].pc = "done" /\ req[r].ret = Some([ok |-> TRUE, error |-> None])
        /\ req[r].nearest /= None /\ req[r].calls["points"] = 0
        /\ \E i, j \in LiveNear(req[r]) :
              /\ i \in Closest(req[r]) /\ j \notin Closest(req[r])
              /\ nws_point_cache[i].gridpoint_id /= nws_point_cache[j].gridpoint_id

\* the coordinates get_forecast_bundle is to reject
Rejected(lat, lon) ==
    \/ lat.nan \/ lon.nan
    \/ lat.v < 0 - 900000 \/ lat.v > 900000
    \/ lon.v < 0 - 1800000 \/ lon.v > 1800000
    \/ lat.v < PA_MIN_LAT \/ lat.v > PA_MAX_LAT
    \/ lon.v < PA_MIN_LON \/ lon.v > PA_MAX_LON

\* C6: a coordinate with a NaN, out of [-90,90]x[-180,180] or outside the
\* service rectangle is rejected with ValueError in the step that accepts the
\* request: nothing has been sent upstream, the store is as it was, and the
\* request does nothing afterwards.
C6_RejectedBeforeIO ==
    [][\A r \in Slots :
        /\ (req[r].pc = "idle" /\ StepOf(r) /\ Rejected(req'[r].lat, req'[r].lon))
           => /\ req'[r].pc = "done"
              /\ req'[r].exc = Some("ValueError")
              /\ \A k \in Resources : req'[r].calls[k] = 0
              /\ store' = store
        /\ (req[r].pc = "done" /\ Rejected(req[r].lat, req[r].lon) /\ StepOf(r))
           => req'[r].pc = "idle" /\ store' = store]_vars

C6_Witness ==
    \E r \in Slots :
        /\ req[r].pc = "done" /\ req[r].lat.nan /\ req[r].exc = Some("ValueError")
        /\ \A k \in Resources : req[r].calls[k] = 0
        /\ Len(nws_point_cache) > 0

\* C8 (as claimed): whatever the stations fetch and the station refresh do,
\* the request does not raise: it carries on to the products (or returns ok)
\* with a note in the trace, and stations_linked is 0 unless stations were
\* stored.
C8_StationsNeverBlock ==
    [][\A r \in Slots :
        (req[r].pc = "stations" /\ StepOf(r))
        => /\ req'[r].exc = None
           /\ req'[r].pc \in {"product", "done"}
           /\ req'[r].pc = "done" => req'[r].ret = Some([ok |-> TRUE, error |-> None])
           /\ \/ HasNote(req'[r], "", "Stations fetch skipped/failed")
              \/ HasNote(req'[r], "", "Stored/linked stations for gridpoint")
           /\ req'[r].stations_linked > 0 =>
                 (nws_stations' /= <<>> /\ DOMAIN nws_gridpoint_stations' /= {})]_vars

\* C9: on a point-cache miss, a /points result with a status other than 200
\* or without a parsed body ends the request with ok = false and the trace
\* so far: no row of nws_gridpoints or nws_point_cache is written and nothing
\* is sent to the stations or product resources.
C9_PointsFailureIsHard ==
    [][\A r \in Slots :
        (/\ req[r].pc = "points" /\ StepOf(r)
         /\ \/ req'[r].points_res[1].status_code /= 200
            \/ req'[r].points_res[1].json_data = None)
        => /\ req'[r].pc = "done"
           /\ req'[r].exc = None
           /\ req'[r].ret /= None /\ ~req'[r].ret[1].ok
           /\ req'[r].debug = req[r].debug
           /\ store' = store
           /\ \A k \in Resources \ {"points"} : req'[r].calls[k] = 0
           /\ req'[r].calls["points"] = 1]_vars

\* a 404 that carries a usable body, with the store left as it was
C9_Witness ==
    \E r \in Slots :
        /\ req[r].pc = "done" /\ req[r].ret /= None /\ ~req[r].ret[1].ok
        /\ req[r].points_res /= None
        /\ req[r].points_res[1].status_code = 404
        /\ req[r].points_res[1].json_data /= None
        /\ nws_gridpoints = <<>> /\ nws_point_cache = <<>>

\* C10 (as claimed): the answer is a 4xx exactly when the coordinate fails
\* validation; every other failure is answered with a 5xx.
C10_ErrorClasses ==
    \A r \in Slots :
        req[r].pc = "done"
        => /\ (req[r].http \in 400..499) <=> Rejected(req[r].lat, req[r].lon)
           /\ (/\ ~Rejected(req[r].lat, req[r].lon)
               /\ \/ req[r].exc /= None
                  \/ (req[r].ret /= None /\ ~req[r].ret[1].ok))
              => req[r].http \in 500..599

\* C11: with requests overlapping, in every reachable state no two rows of
\* nws_gridpoints have the same (grid_id, grid_x, grid_y), every row of
\* nws_point_cache refers to a row of nws_gridpoints, and the requests in
\* progress for the same coordinate that hold a grid cell hold the same one.
C11_DuplicateResolutionTolerated ==
    /\ \A i, j \in DOMAIN nws_gridpoints :
          (/\ nws_gridpoints[i].grid_id = nws_gridpoints[j].grid_id
           /\ nws_gridpoints[i].grid_x = nws_gridpoints[j].grid_x
           /\ nws_gridpoints[i].grid_y = nws_gridpoints[j].grid_y) => i = j
    /\ \A e \in DOMAIN nws_point_cache :
          nws_point_cache[e].gridpoint_id \in DOMAIN nws_gridpoints
    /\ \A r, s \in Slots :
          (/\ req[r].pc /= "idle" /\ req[s].pc /= "idle"
           /\ req[r].lat = req[s].lat /\ req[r].lon = req[s].lon)
          => /\ (req[r].gridpoint_id /= None /\ req[s].gridpoint_id /= None)
                => req[r].gridpoint_id = req[s].gridpoint_id
             /\ (req[r].gridpoint /= None /\ req[s].gridpoint /= None)
                => req[r].gridpoint[1].id = req[s].gridpoint[1].id

\* two requests that both missed the point cache, both resolved upstream and
\* both inserted their row, with one grid cell between them
C11_Witness ==
    \E r, s \in Slots :
        /\ r /= s
        /\ req[r].points_res /= None /\ req[s].points_res /= None
        /\ req[r].calls["points"] = 1 /\ req[s].calls["points"] = 1
        /\ req[r].gridpoint /= None /\ req[s].gridpoint /= None
        /\ Len(nws_gridpoints) = 1 /\ Len(nws_point_cache) = 2

\* the rows of the table with the natural key of the properties props
RowsKeyed(table, props) ==
    {i \in DOMAIN table :
        /\ table[i].grid_id = props.gridId[1]
        /\ table[i].grid_x = props.gridX[1]
        /\ table[i].grid_y = props.gridY[1]}

\* C12: an upsert of a /points body leaves exactly one row with the body's
\* (grid_id, grid_x, grid_y); the id returned is that row's, the same id as
\* before when the key was already stored; the row carries the URLs, time
\* zone and radar station of this body and every other row is as it was.  No
\* step removes a row of nws_gridpoints or changes the key stored under an id.
C12_UpsertOnNaturalKey ==
    [][/\ \A r \in Slots :
            (req[r].pc = "points" /\ req'[r].pc = "insert")
            => LET props == properties(req'[r].points_res[1].json_data[1])
                   id == req'[r].gridpoint_id[1]
                   old == RowsKeyed(nws_gridpoints, props)
               IN /\ RowsKeyed(nws_gridpoints', props) = {id}
                  /\ old /= {} => (old = {id} /\ Len(nws_gridpoints') = Len(nws_gridpoints))
                  /\ old = {} => Len(nws_gridpoints') = Len(nws_gridpoints) + 1
                  /\ nws_gridpoints'[id].forecast_url = props.forecast
                  /\ nws_gridpoints'[id].forecast_hourly_url = props.forecastHourly
                  /\ nws_gridpoints'[id].forecast_griddata_url = props.forecastGridData
                  /\ nws_gridpoints'[id].observation_stations_url = props.observationStations
                  /\ nws_gridpoints'[id].time_zone = props.timeZone
                  /\ nws_gridpoints'[id].radar_station = props.radarStation
                  /\ \A i \in DOMAIN nws_gridpoints \ {id} :
                        nws_gridpoints'[i] = nws_gridpoints[i]
       /\ Len(nws_gridpoints') >= Len(nws_gridpoints)
       /\ \A i \in DOMAIN nws_gridpoints :
            /\ nws_gridpoints'[i].grid_id = nws_gridpoints[i].grid_id
            /\ nws_gridpoints'[i].grid_x = nws_gridpoints[i].grid_x
            /\ nws_gridpoints'[i].grid_y = nws_gridpoints[i].grid_y]_vars

\* the cell was stored with the forecast URL "CTP/forecast" (a forecast row
\* fetched from it is in the cache) and has just been upserted again with
\* "CTP/forecast2": one row, the same id, the later URL
C12_Witness ==
    \E r \in Slots :
        /\ req[r].pc = "insert" /\ req[r].gridpoint_id = Some(1)
        /\ req[r].points_res[1].json_data = Some("{CTP/b}")
        /\ <<1, "forecast">> \in DOMAIN nws_forecasts
        /\ nws_forecasts[<<1, "forecast">>].url = "CTP/forecast"
        /\ nws_gridpoints[1].forecast_url = Some("CTP/forecast2")
        /\ RowsKeyed(nws_gridpoints, properties("{CTP/b}")) = {1}

\* C13 (as claimed): after a product fetch that fails (a status other than
\* 200 and 304, 0 for a transport error, or a 200 whose body does not parse)
\* the row of nws_forecasts for the product exists, holds the status observed
\* and an error text, and its payload is the one stored before the fetch.
C13_FailurePersisted ==
    [][\A r \in Slots :
        (/\ req[r].pc = "fetch" /\ StepOf(r)
         /\ \/ req'[r].res[1].status_code \notin {200, 304}
            \/ (req'[r].res[1].status_code = 200 /\ req'[r].res[1].json_data = None))
        => LET k == RowKey(req[r])
           IN /\ k \in DOMAIN nws_forecasts'
              /\ nws_forecasts'[k].status_code = req'[r].res[1].status_code
              /\ nws_forecasts'[k].error /= None
              /\ PayloadAt(nws_forecasts', k) = PayloadAt(nws_forecasts, k)]_vars

\* the precedence as claimed: the digits of the first max-age directive that
\* has digits, else the instant of a well-formed Expires, else the default
ClaimedExpiry(headers, default_ttl_seconds, t) ==
    LET cc == IF headers.cache_control = None THEN <<>> ELSE headers.cache_control[1]
        withDigits == {i \in DOMAIN cc : cc[i].name = "max-age" /\ cc[i].arg /= None}
        first == CHOOSE i \in withDigits : \A j \in withDigits : i <= j
    IN IF withDigits /= {} THEN t + cc[first].arg[1]
       ELSE IF headers.expires /= None /\ headers.expires[1].valid
       THEN headers.expires[1].t
       ELSE t + default_ttl_seconds

\* C14 (as claimed): whatever the headers of a response, the expiry computed
\* from them is now + N for Cache-Control max-age=N, else the instant of a
\* well-formed Expires, else now + the default TTL: a usable /points answer
\* yields that expiry for the point cache, a product answer of 200 (or of 304
\* for a cached payload) stores it in the row.
C14_ExpiryPrecedence ==
    [][\A r \in Slots :
        /\ (/\ req[r].pc = "points" /\ StepOf(r)
            /\ req'[r].points_res[1].status_code = 200
            /\ NonEmpty(req'[r].points_res[1].json_data)
            /\ req'[r].exc /= Some("ValueError"))
           => /\ req'[r].exc = None
              /\ req'[r].points_expires_at =
                    Some(ClaimedExpiry(req'[r].points_res[1].headers,
                                       points_default_ttl_s, now))
        /\ (/\ req[r].pc = "fetch" /\ StepOf(r)
            /\ \/ (req'[r].res[1].status_code = 200 /\ NonEmpty(req'[r].res[1].json_data))
               \/ (/\ req'[r].res[1].status_code = 304
                   /\ req[r].cached /= None
                   /\ NonEmpty(req[r].cached[1].data_json)))
           => /\ req'[r].exc = None
              /\ RowKey(req[r]) \in DOMAIN nws_forecasts'
              /\ nws_forecasts'[RowKey(req[r])].expires_at =
                    ClaimedExpiry(req'[r].res[1].headers, forecast_default_ttl_s, now)]_vars

\* the same for the headers whose max-age leaves now + N within the range of
\* a datetime
C14_ExpiryPrecedenceInRange ==
    [][\A r \in Slots :
        (/\ req[r].pc = "fetch" /\ StepOf(r)
         /\ req'[r].exc = None
         /\ \/ (req'[r].res[1].status_code = 200 /\ NonEmpty(req'[r].res[1].json_data))
            \/ (/\ req'[r].res[1].status_code = 304
                /\ req[r].cached /= None
                /\ NonEmpty(req[r].cached[1].data_json)))
        => /\ RowKey(req[r]) \in DOMAIN nws_forecasts'
           /\ nws_forecasts'[RowKey(req[r])].expires_at =
                 ClaimedExpiry(req'[r].res[1].headers, forecast_default_ttl_s, now)]_vars

\* the forecast types for which the grid cell the request holds has no URL
NoUrlTypes(q) ==
    {t \in {"forecast", "hourly", "griddata"} :
        \/ (t = "forecast" /\ q.gridpoint[1].row.forecast_url = None)
        \/ (t = "hourly" /\ q.gridpoint[1].row.forecast_hourly_url = None)
        \/ (t = "griddata" /\ q.gridpoint[1].row.forecast_griddata_url = None)}
\* the position of a forecast type in the order forecast, hourly, griddata
OrderOf(t) == CASE t = "forecast" -> 1 [] t = "hourly" -> 2 [] t = "griddata" -> 3

\* C15: for a forecast type whose URL the resolved grid cell lacks, the
\* request never looks up or fetches that type, never sends anything to its
\* resource, leaves the row of that type as it is and puts no slot for it
\* into the bundle; once the loop is past the type the trace holds its skip
\* note, and a request that ends without raising returns ok = true with a
\* slot for every type that has a URL.
C15_MissingUrlSkipped ==
    [][\A r \in Slots :
        (StepOf(r) /\ req'[r].pc /= "idle" /\ req'[r].gridpoint /= None)
        => LET q == req'[r]
           IN /\ \A t \in NoUrlTypes(q) :
                    /\ q.calls[t] = 0
                    /\ t \notin DOMAIN q.data
                    /\ q.pc \in {"product", "fetch"} => CurrentType(q) /= t
                    /\ (<<q.gridpoint[1].id, t>> \in DOMAIN nws_forecasts')
                          <=> (<<q.gridpoint[1].id, t>> \in DOMAIN nws_forecasts)
                    /\ (q.pc \in {"product", "fetch"} /\ q.fidx > OrderOf(t))
                          => HasNote(q, t, "No URL available, skipping")
                    /\ (q.pc = "done" /\ q.ret /= None /\ q.ret[1].ok)
                          => HasNote(q, t, "No URL available, skipping")
              /\ (q.pc = "done" /\ q.exc = None)
                    => /\ q.ret /= None /\ q.ret[1].ok
                       /\ DOMAIN q.data =
                            {"forecast", "hourly", "griddata"} \ NoUrlTypes(q)]_vars

\* a bundle returned ok with the forecast slot only, hourly and griddata
\* skipped
C15_Witness ==
    \E r \in Slots :
        /\ req[r].pc = "done" /\ req[r].ret = Some([ok |-> TRUE, error |-> None])
        /\ req[r].gridpoint /= None
        /\ NoUrlTypes(req[r]) = {"hourly", "griddata"}
        /\ DOMAIN req[r].data = {"forecast"}
        /\ req[r].calls["forecast"] = 1
        /\ HasNote(req[r], "hourly", "No URL available, skipping")
        /\ HasNote(req[r], "griddata", "No URL available, skipping")

\* A cold start that went well: the first request of the run (the store was
\* empty when it came), for a coordinate in the rectangle, whose /points
\* answer was a 200 naming a cell with all its URLs and whose stations answer
\* was stored.  (The product resources of GridEnv answer 200 with a payload.)
ColdStart(q) ==
    /\ started = 1
    /\ q.pc = "done"
    /\ ~Rejected(q.lat, q.lon)
    /\ q.points_res /= None
    /\ q.points_res[1].status_code = 200
    /\ q.points_res[1].json_data \in {Some("{CTP/a}"), Some("{CTP/b}")}
    /\ HasNote(q, "", "Stored/linked stations for gridpoint")

\* C16: a cold start that went well has sent exactly one request to the
\* point-resolution resource and one to each of forecast, hourly and
\* griddata, has created exactly one row of nws_gridpoints and one of
\* nws_point_cache, returns ok = true with the three slots filled, and its
\* trace has at least 6 entries.
C16_ColdStart ==
    \A r \in Slots :
        ColdStart(req[r])
        => /\ req[r].exc = None
           /\ req[r].ret = Some([ok |-> TRUE, error |-> None])
           /\ req[r].http = 200
           /\ req[r].calls["points"] = 1
           /\ \A t \in {"forecast", "hourly", "griddata"} :
                 /\ req[r].calls[t] = 1
                 /\ t \in DOMAIN req[r].data
                 /\ req[r].data[t].error = None
                 /\ <<1, t>> \in DOMAIN nws_forecasts
           /\ Len(nws_gridpoints) = 1
           /\ Len(nws_point_cache) = 1
           /\ nws_point_cache[1].gridpoint_id = 1
           /\ Len(req[r].debug) >= 6

C16_Witness ==
    \E r \in Slots :
        /\ ColdStart(req[r])
        /\ req[r].lat = QHome[1] /\ req[r].lon = QHome[2]
        /\ req[r].stations_linked = 2
        /\ Len(nws_stations) = 2
        /\ req[r].ret = Some([ok |-> TRUE, error |-> None])

\* C17 (as claimed): a fetch for an absent or expired row that is answered
\* 200 with a body parsing to a JSON object, the empty object included,
\* replaces the row: that body as payload, the ETag and Last-Modified of the
\* response, status 200, no error, the expiry computed from the response; and
\* the slot of the bundle holds that body.  (Stated for the responses whose
\* expiry can be computed.)
C17_Replaced200 ==
    [][\A r \in Slots :
        (/\ req[r].pc = "fetch" /\ StepOf(r)
         /\ req'[r].res[1].status_code = 200
         /\ req'[r].res[1].json_data /= None
         /\ req'[r].exc = None)
        => LET k == RowKey(req[r])
               res == req'[r].res[1]
           IN /\ k \in DOMAIN nws_forecasts'
              /\ nws_forecasts'[k].data_json = res.json_data
              /\ nws_forecasts'[k].etag = res.headers.etag
              /\ nws_forecasts'[k].last_modified = res.last_modified
              /\ nws_forecasts'[k].status_code = 200
              /\ nws_forecasts'[k].error = None
              /\ nws_forecasts'[k].expires_at =
                    ClaimedExpiry(res.headers, forecast_default_ttl_s, now)
              /\ k[2] \in DOMAIN req'[r].data
              /\ req'[r].data[k[2]] = [error |-> None, status |-> None,
                                       body |-> res.json_data]]_vars

\* the same for the bodies that are not the empty object
C17_Replaced200NonEmpty ==
    [][\A r \in Slots :
        (/\ req[r].pc = "fetch" /\ StepOf(r)
         /\ req'[r].res[1].status_code = 200
         /\ NonEmpty(req'[r].res[1].json_data)
         /\ req'[r].exc = None)
        => LET k == RowKey(req[r])
               res == req'[r].res[1]
           IN /\ k \in DOMAIN nws_forecasts'
              /\ nws_forecasts'[k].data_json = res.json_data
              /\ nws_forecasts'[k].etag = res.headers.etag
              /\ nws_forecasts'[k].last_modified = res.last_modified
              /\ nws_forecasts'[k].status_code = 200
              /\ nws_forecasts'[k].error = None
              /\ k[2] \in DOMAIN req'[r].data
              /\ req'[r].data[k[2]] = [error |-> None, status |-> None,
                                       body |-> res.json_data]]_vars

\* C18 (as claimed): the row a request inserts into nws_point_cache after a
\* miss holds the coordinate of the query, distance_m = 0 and the id of the
\* grid cell upserted from the same /points answer.
C18_ExactPointEntry ==
    [][\A r \in Slots :
        (req[r].pc = "insert" /\ StepOf(r))
        => /\ Len(nws_point_cache') = Len(nws_point_cache) + 1
           /\ LET e == nws_point_cache'[Len(nws_point_cache')]
                  props == properties(req[r].points_res[1].json_data[1])
              IN /\ e.lat = req[r].lat.v /\ e.lon = req[r].lon.v
                 /\ e.gridpoint_id \in RowsKeyed(nws_gridpoints, props)
                 /\ e.gridpoint_id = req[r].gridpoint_id[1]
                 /\ e.distance_m = Some(0)]_vars

\* the same without the distance
C18_ExactPointEntryButDistance ==
    [][\A r \in Slots :
        (req[r].pc = "insert" /\ StepOf(r))
        => /\ Len(nws_point_cache') = Len(nws_point_cache) + 1
           /\ \A i \in DOMAIN nws_point_cache : nws_point_cache'[i] = nws_point_cache[i]
           /\ LET e == nws_point_cache'[Len(nws_point_cache')]
                  props == properties(req[r].points_res[1].json_data[1])
              IN /\ e.lat = req[r].lat.v /\ e.lon = req[r].lon.v
                 /\ e.gridpoint_id \in RowsKeyed(nws_gridpoints, props)
                 /\ e.gridpoint_id = req[r].gridpoint_id[1]]_vars

\* the rows of the stations table with the identifier ident
StationsNamed(table, ident) ==
    {s \in DOMAIN table : table[s].station_identifier = ident}

\* C19: a station refresh that went through the feed (records that are
\* objects, with well-formed geometry) returns the number of records with an
\* identifier; afterwards each identifier of the feed has exactly one row of
\* nws_stations and that station exactly one link to the grid cell, whose
\* priority is the 0-based position of the identifier's last record in the
\* feed, whatever was linked before; records without an identifier leave no
\* row and raise nothing; links to stations not in the feed are as they were.
C19_StationsLinkedInFeedOrder ==
    [][\A r \in Slots :
        (/\ req[r].pc = "stations" /\ StepOf(r)
         /\ req'[r].exc = None
         /\ req'[r].stations_res[1].status_code = 200
         /\ NonEmpty(req'[r].stations_res[1].json_data)
         /\ features_of(req'[r].stations_res[1].json_data[1]).is_list)
        => LET items == features_of(req'[r].stations_res[1].json_data[1]).items
               gp == req[r].gridpoint[1].id
               withId == {i \in DOMAIN items : items[i].ident /= None}
               idents == {items[i].ident[1] : i \in withId}
               lastOf(ident) == CHOOSE i \in withId :
                                    /\ items[i].ident[1] = ident
                                    /\ \A j \in withId :
                                          items[j].ident[1] = ident => j <= i
           IN /\ req'[r].stations_linked = Cardinality(withId)
              /\ \A ident \in idents :
                    /\ Cardinality(StationsNamed(nws_stations', ident)) = 1
                    /\ \A s \in StationsNamed(nws_stations', ident) :
                          /\ <<gp, s>> \in DOMAIN nws_gridpoint_stations'
                          /\ nws_gridpoint_stations'[<<gp, s>>] = lastOf(ident) - 1
              /\ \A s \in DOMAIN nws_stations' :
                    \/ s \in DOMAIN nws_stations
                    \/ nws_stations'[s].station_identifier \in idents
              /\ \A s \in DOMAIN nws_stations :
                    nws_stations'[s].station_identifier = nws_stations[s].station_identifier
              /\ \A k \in DOMAIN nws_gridpoint_stations' :
                    \/ (k[1] = gp /\ nws_stations'[k[2]].station_identifier \in idents)
                    \/ (/\ k \in DOMAIN nws_gridpoint_stations
                        /\ nws_gridpoint_stations'[k] = nws_gridpoint_stations[k])]_vars

\* S2 was stored before S1 (by the feed that lists S2 at position 1 and S1 at
\* position 2) and the feed just processed lists S1 at 0 and S2 at 1: two
\* stations, two links, the priorities of the later feed
C19_Witness ==
    \E r \in Slots :
        /\ req[r].stations_res /= None
        /\ req[r].stations_res[1].json_data = Some("{S1,S2}")
        /\ req[r].stations_linked = 2
        /\ req[r].pc \in {"product", "fetch", "done"} /\ req[r].exc = None
        /\ Len(nws_stations) = 2
        /\ nws_stations[1].station_identifier = "S2"
        /\ nws_stations[2].station_identifier = "S1"
        /\ nws_gridpoint_stations[<<req[r].gridpoint[1].id, 2>>] = 0
        /\ nws_gridpoint_stations[<<req[r].gridpoint[1].id, 1>>] = 1

\* how far a request has come: validation, point-cache lookup, point
\* resolution and its writes, stations, then forecast, hourly, griddata (for
\* each its cache lookup, then its fetch and write)
StageOf(q) ==
    CASE q.pc = "idle" -> 0
      [] q.pc = "lookup" -> 1
      [] q.pc = "load" -> 2
      [] q.pc = "points" -> 3
      [] q.pc = "insert" -> 4
      [] q.pc = "reload" -> 5
      [] q.pc = "stations" -> 6
      [] q.pc = "product" -> 10 * OrderOf(CurrentType(q))
      [] q.pc = "fetch" -> 10 * OrderOf(CurrentType(q)) + 1
      [] q.pc = "done" -> 100

\* the place of a trace note in the order of the steps above
PhaseOf(note) ==
    IF note.ftype /= ""
    THEN 10 * OrderOf(note.ftype)
            + (CASE note.text \in {"cache hit", "cache miss/expired -> calling NWS",
                                   "No URL available, skipping"} -> 0
                 [] note.text \in {"NWS OK -> cached", "NWS failed",
                                   "NWS 304 Not Modified -> extending cache"} -> 1
                 [] note.text = "NWS error detail" -> 2
                 [] note.text = "body preview" -> 3
                 [] note.text = "returning STALE cached data due to upstream failure" -> 4)
    ELSE CASE note.text = "Received lat/lon" -> 0
           [] note.text = "Validated lat/lon within PA bounds" -> 1
           [] note.text = "Point cache hit" -> 2
           [] note.text = "Point cache miss -> calling NWS /points" -> 3
           [] note.text = "NWS /points OK" -> 4
           [] note.text = "Fetching observation stations list" -> 6
           [] note.text \in {"Stored/linked stations for gridpoint",
                             "Stations fetch skipped/failed",
                             "No observationStations URL on gridpoint metadata"} -> 7

\* the upstream resources in the order a request may call them
CallOrder(k) ==
    CASE k = "points" -> 1 [] k = "stations" -> 2 [] k = "forecast" -> 3
      [] k = "hourly" -> 4 [] k = "griddata" -> 5

\* C20: every step of a request moves it forward in the order validation,
\* point-cache lookup, point resolution and its writes, stations, forecast,
\* hourly, griddata; a step sends at most one request upstream, and only when
\* nothing has been sent to a later resource and every earlier product that
\* has a URL has its slot; the trace only grows at its end and its notes
\* stand in that same order.
C20_StrictSequence ==
    [][\A r \in Slots :
        (StepOf(r) /\ req'[r].pc /= "idle")
        => /\ StageOf(req'[r]) > StageOf(req[r])
           /\ Len(req'[r].debug) >= Len(req[r].debug)
           /\ \A i \in DOMAIN req[r].debug : req'[r].debug[i] = req[r].debug[i]
           /\ \A i, j \in DOMAIN req'[r].debug :
                 i < j => PhaseOf(req'[r].debug[i]) < PhaseOf(req'[r].debug[j])
           /\ \A k \in Resources : req'[r].calls[k] \in {req[r].calls[k], req[r].calls[k] + 1}
           /\ Cardinality({k \in Resources : req'[r].calls[k] /= req[r].calls[k]}) <= 1
           /\ \A k \in Resources :
                 req'[r].calls[k] /= req[r].calls[k]
                 => /\ req[r].calls[k] = 0
                    /\ \A l \in Resources : CallOrder(l) > CallOrder(k) => req[r].calls[l] = 0
                    /\ \A t \in {"forecast", "hourly", "griddata"} :
                          (CallOrder(t) > 2 /\ CallOrder(t) < CallOrder(k))
                          => (t \in DOMAIN req[r].data \/ t \in NoUrlTypes(req[r]))]_vars

\* a request that missed the point cache, stored stations and fetched the
\* three products in turn
C20_Witness ==
    \E r \in Slots :
        /\ req[r].pc = "done" /\ req[r].ret = Some([ok |-> TRUE, error |-> None])
        /\ \A k \in Resources : req[r].calls[k] = 1
        /\ Len(req[r].debug) = 12
        /\ req[r].debug[3].text = "Point cache miss -> calling NWS /points"
        /\ req[r].debug[6].text = "Stored/linked stations for gridpoint"
        /\ req[r].debug[7].ftype = "forecast"
        /\ req[r].debug[9].ftype = "hourly"
        /\ req[r].debug[11].ftype = "griddata"

\* the rows of the point cache within the radius of q's coordinate whose
\* expiry is not in the future
ExpiredNear(q) ==
    {i \in DOMAIN nws_point_cache :
        /\ nws_point_cache[i].expires_at <= now
        /\ DWithin(nws_point_cache[i].lat, nws_point_cache[i].lon,
                   q.lat.v, q.lon.v, cache_radius_m)}

\* C21: no step changes or removes a row of nws_point_cache (the table only
\* grows at its end); the lookup never returns a row whose expiry is not in
\* the future, and when no live row lies within the radius, expired rows
\* there or not, the request goes on to the point resolution, which sends one
\* request upstream, and the insert that follows a usable answer adds one row
\* for the request's coordinate with the expiry computed from that answer.
C21_AppendOnlyReadTimeExpiry ==
    [][/\ Len(nws_point_cache') >= Len(nws_point_cache)
       /\ \A i \in DOMAIN nws_point_cache : nws_point_cache'[i] = nws_point_cache[i]
       /\ \A r \in Slots :
            /\ (req[r].pc = "lookup" /\ StepOf(r))
               => /\ req'[r].nearest /= None
                     => /\ req'[r].nearest[1] \in DOMAIN nws_point_cache
                        /\ nws_point_cache[req'[r].nearest[1]].expires_at > now
                        /\ req'[r].nearest[1] \notin ExpiredNear(req[r])
                  /\ LiveNear(req[r]) = {}
                     => /\ req'[r].pc = "points"
                        /\ req'[r].nearest = None
                        /\ req'[r].gridpoint_id = None
                        /\ HasNote(req'[r], "", "Point cache miss -> calling NWS /points")
            /\ (req[r].pc = "points" /\ StepOf(r))
               => /\ req[r].calls["points"] = 0
                  /\ req'[r].calls["points"] = 1
            /\ (req[r].pc = "insert" /\ StepOf(r))
               => /\ Len(nws_point_cache') = Len(nws_point_cache) + 1
                  /\ LET row == nws_point_cache'[Len(nws_point_cache')]
                     IN /\ row.lat = req[r].lat.v /\ row.lon = req[r].lon.v
                        /\ row.gridpoint_id = req[r].gridpoint_id[1]
                        /\ row.expires_at = req[r].points_expires_at[1]]_vars

\* a request for the very coordinate of an expired row that missed, resolved
\* upstream and added a second row for that coordinate, the first row intact
C21_Witness ==
    \E r \in Slots :
        /\ req[r].pc = "done" /\ req[r].ret = Some([ok |-> TRUE, error |-> None])
        /\ req[r].calls["points"] = 1 /\ req[r].nearest = None
        /\ Len(nws_point_cache) = 2
        /\ 1 \in ExpiredNear(req[r])
        /\ nws_point_cache[1].lat = req[r].lat.v /\ nws_point_cache[1].lon = req[r].lon.v
        /\ nws_point_cache[2].lat = req[r].lat.v /\ nws_point_cache[2].lon = req[r].lon.v

\* how many requests r has sent upstream
TotalCalls(q) ==
    q.calls["points"] + q.calls["stations"] + q.calls["forecast"]
        + q.calls["hourly"] + q.calls["griddata"]

\* C22: when every await returns, a request in progress comes to its end
\* (get_forecast_bundle returns or raises and the handler answers), and at no
\* time has a request sent more than one request to any of the five upstream
\* resources, so never more than five in all, whatever the answers were.
C22_NoRetryAndCompletion ==
    /\ [](\A r \in Slots :
            /\ \A k \in Resources : req[r].calls[k] <= 1
            /\ TotalCalls(req[r]) <= 5)
    /\ \A r \in Slots :
          (req[r].pc \notin {"idle", "done"}) ~> (req[r].pc = "done")

\* a request that ended ok after sending five requests upstream, of which
\* the stations fetch and the forecast fetch met a transport failure
C22_Witness ==
    \E r \in Slots :
        /\ req[r].pc = "done" /\ req[r].ret = Some([ok |-> TRUE, error |-> None])
        /\ TotalCalls(req[r]) = 5
        /\ HasNote(req[r], "", "Stations fetch skipped/failed")
        /\ "forecast" \in DOMAIN req[r].data
        /\ req[r].data["forecast"] = ErrorMarker(0)

\* C23 (as claimed): when a request has read a row of nws_forecasts and,
\* before its fetch is answered 304, another request's 200 has stored a
\* different payload in that row, the write of the 304 leaves that payload in
\* place: the payload stored after the step is the one stored before it.
C23_NoLostUpdate ==
    [][\A r \in Slots :
        (/\ req[r].pc = "fetch" /\ StepOf(r)
         /\ req[r].cached /= None
         /\ NonEmpty(req[r].cached[1].data_json)
         /\ RowKey(req[r]) \in DOMAIN nws_forecasts
         /\ nws_forecasts[RowKey(req[r])].status_code = 200
         /\ nws_forecasts[RowKey(req[r])].data_json /= req[r].cached[1].data_json
         /\ req'[r].res[1].status_code = 304)
        => PayloadAt(nws_forecasts', RowKey(req[r])) =
              PayloadAt(nws_forecasts, RowKey(req[r]))]_vars

\* C24: a fetch answered 304 by a request that read no row for the product,
\* or a row without a non-empty payload, leaves nws_forecasts as it was, puts
\* {"error": "fetch failed", "status": 304} into the slot of the product and
\* does not fail the request (nothing is raised, and a result returned is
\* ok); and no step leaves a row of nws_forecasts without a non-empty
\* payload.
C24_NotModifiedWithoutPayload ==
    [][/\ \A r \in Slots :
            (/\ req[r].pc = "fetch" /\ StepOf(r)
             /\ (req[r].cached = None \/ ~NonEmpty(req[r].cached[1].data_json))
             /\ req'[r].res[1].status_code = 304)
            => LET ftype == CurrentType(req[r])
               IN /\ nws_forecasts' = nws_forecasts
                  /\ ftype \in DOMAIN req'[r].data
                  /\ req'[r].data[ftype] = ErrorMarker(304)
                  /\ HasNote(req'[r], ftype, "NWS failed")
                  /\ req'[r].exc = None
                  /\ req'[r].ret /= None => req'[r].ret[1].ok
       /\ \A k \in DOMAIN nws_forecasts' : NonEmpty(PayloadAt(nws_forecasts', k))]_vars

\* a request that ended ok with the 304 marker in its forecast slot, no row
\* stored for the forecast, after a row was stored for another product
C24_Witness ==
    \E r \in Slots :
        /\ req[r].pc = "done" /\ req[r].ret = Some([ok |-> TRUE, error |-> None])
        /\ req[r].calls["forecast"] = 1
        /\ "forecast" \in DOMAIN req[r].data
        /\ req[r].data["forecast"] = ErrorMarker(304)
        /\ <<req[r].gridpoint[1].id, "forecast">> \notin DOMAIN nws_forecasts
        /\ <<req[r].gridpoint[1].id, "hourly">> \in DOMAIN nws_forecasts

====
